---- MODULE Spec2Model ----
(***************************************************************************)
(* The virtual file system of the BrowserOS kernel (kernel/src/lib.rs):    *)
(* the inode store, the path resolver, the descriptor table and the        *)
(* exported fs_* syscalls.  Strings are sequences of one-character         *)
(* strings, byte vectors are sequences of integers 0..255, HashMaps are    *)
(* functions, Option<u32> is a set with at most one element.               *)
(* The process table and the clock are not part of the file system and     *)
(* are left out; boot's effect on the file system is modelled.             *)
(***************************************************************************)
EXTENDS Integers, Sequences, FiniteSets, TLC

(***************************************************************************)
(* Bounds of the exploration.                                              *)
(***************************************************************************)
\* longest path over PathChars handed to fs_create
MaxPathLen == 3
\* number of inodes fs_create may allocate in one run
MaxCreates == 2
\* number of boot calls in one run
MaxBoots == 2
\* number of descriptors fs_open may allocate in one run
MaxOpens == 2
\* longest content of one inode
MaxData == 2
\* inodes fs_create allocates, descriptors opened and longest content in a
\* run of SpecShadow
ShadowCreates == 1
ShadowOpens == 1
ShadowData == 1
\* width of usize in bits (32 on wasm32), scaled down
WordBits == 2

(***************************************************************************)
(* Program constants.                                                      *)
(***************************************************************************)
root_inode_id == 0
FirstInodeId == 1
FirstFd == 3
U8Max == 255

UsizeMod == 2 ^ WordBits

VARIABLES
    booted,         \* Kernel.booted
    inode_map,      \* Kernel.inode_map : id -> Inode
    next_inode_id,  \* Kernel.next_inode_id
    open_files,     \* Kernel.open_files : fd -> FileDescriptor
    next_fd,        \* Kernel.next_fd
    panicked,       \* the last call panicked: the call never returned
    ret,            \* the last boundary call and what it returned
    boots,          \* history: number of boot calls so far
    issued,         \* history: the handles fs_open returned, in order
    closed,         \* history: the handles fs_close closed
    readLog,        \* history: fd -> the bytes its reads returned, in order
    script          \* history: how many calls of Scenario the run so far is
                    \* made of, -1 once it has made another call

kernel == <<booted, inode_map, next_inode_id, open_files, next_fd>>
fsState == <<inode_map, next_inode_id, open_files, next_fd>>
history == <<boots, issued, closed, readLog>>
vars == <<booted, inode_map, next_inode_id, open_files, next_fd, panicked, ret,
          boots, issued, closed, readLog, script>>

(***************************************************************************)
(* HashMap and Result helpers.                                             *)
(***************************************************************************)
EmptyMap == [x \in {} |-> 0]
Insert(m, k, v) == [x \in (DOMAIN m) \cup {k} |-> IF x = k THEN v ELSE m[x]]
Remove(m, k) == [x \in (DOMAIN m) \ {k} |-> m[x]]

Ok(v) == [ok |-> TRUE, val |-> v, err |-> ""]
Err(e) == [ok |-> FALSE, val |-> 0, err |-> e]

Min(a, b) == IF a <= b THEN a ELSE b

(***************************************************************************)
(* str methods.                                                            *)
(***************************************************************************)
RECURSIVE trim_start_matches(_, _)
trim_start_matches(s, c) ==
    IF s # <<>> /\ Head(s) = c THEN trim_start_matches(Tail(s), c) ELSE s

RECURSIVE trim_end_matches(_, _)
trim_end_matches(s, c) ==
    IF s # <<>> /\ s[Len(s)] = c
    THEN trim_end_matches(SubSeq(s, 1, Len(s) - 1), c)
    ELSE s

trim_matches(s, c) == trim_end_matches(trim_start_matches(s, c), c)

\* str::trim, for the one whitespace character of the inputs
trim(s) == trim_matches(s, " ")

\* str::rfind: the 1-based position of the last c, 0 for None
rfind(s, c) ==
    LET I == {i \in 1..Len(s) : s[i] = c}
    IN  IF I = {} THEN 0 ELSE CHOOSE i \in I : \A j \in I : j <= i

\* str::split: the pieces between the separators, empty pieces included
RECURSIVE split(_, _)
split(s, c) ==
    LET I == {i \in 1..Len(s) : s[i] = c}
    IN  IF I = {} THEN <<s>>
        ELSE LET i == CHOOSE k \in I : \A j \in I : k <= j
             IN  <<SubSeq(s, 1, i - 1)>> \o split(SubSeq(s, i + 1, Len(s)), c)

DigitChar == <<"0", "1", "2", "3", "4", "5", "6", "7", "8", "9">>
Digits == {DigitChar[i] : i \in 1..10}
DigitVal(c) == (CHOOSE i \in 1..10 : DigitChar[i] = c) - 1

\* u8::to_string
RECURSIVE to_string(_)
to_string(n) ==
    IF n < 10 THEN <<DigitChar[n + 1]>>
    ELSE to_string(n \div 10) \o <<DigitChar[(n % 10) + 1]>>

\* [String]::join
RECURSIVE join(_, _)
join(ss, c) ==
    IF ss = <<>> THEN <<>>
    ELSE IF Len(ss) = 1 THEN ss[1]
    ELSE ss[1] \o <<c>> \o join(Tail(ss), c)

\* the rendering of fs_read: decimal values joined by commas
render(bytes) == join([i \in 1..Len(bytes) |-> to_string(bytes[i])], ",")

RECURSIVE digits_value(_, _)
digits_value(s, acc) ==
    IF s = <<>> THEN acc ELSE digits_value(Tail(s), acc * 10 + DigitVal(Head(s)))

\* str::parse::<u8>: an optional '+', then one or more digits, at most 255
parse_u8(s) ==
    LET body == IF s # <<>> /\ Head(s) = "+" THEN Tail(s) ELSE s
    IN  IF body = <<>> THEN Err("invalid")
        ELSE IF \E i \in 1..Len(body) : body[i] \notin Digits THEN Err("invalid")
        ELSE IF digits_value(body, 0) > U8Max THEN Err("overflow")
        ELSE Ok(digits_value(body, 0))

\* the decoding of fs_write: split(','), filter non-empty, trim, parse, collect
parse_bytes(data) ==
    LET pieces == SelectSeq(split(data, ","), LAMBDA p : p # <<>>)
        parsed == [i \in 1..Len(pieces) |-> parse_u8(trim(pieces[i]))]
    IN  IF \E i \in 1..Len(parsed) : ~parsed[i].ok THEN Err("invalid")
        ELSE [ok |-> TRUE, val |-> [i \in 1..Len(parsed) |-> parsed[i].val], err |-> ""]

\* the characters from ' ' (32) to '~' (126); the double quote, the
\* backslash and the backtick are written by their code points
AsciiPrintable ==
    <<" ", "!", "U+34", "#", "$", "%", "&", "'", "(", ")", "*", "+",
       ",", "-", ".", "/", "0", "1", "2", "3", "4", "5", "6", "7",
       "8", "9", ":", ";", "<", "=", ">", "?", "@", "A", "B", "C",
       "D", "E", "F", "G", "H", "I", "J", "K", "L", "M", "N", "O",
       "P", "Q", "R", "S", "T", "U", "V", "W", "X", "Y", "Z", "[",
       "U+92", "]", "^", "_", "U+96", "a", "b", "c", "d", "e", "f", "g",
       "h", "i", "j", "k", "l", "m", "n", "o", "p", "q", "r", "s",
       "t", "u", "v", "w", "x", "y", "z", "{", "|", "}", "~">>

\* the char of a code point; one outside ' '..'~' is written by its code point
Chr(cp) ==
    IF cp >= 32 /\ cp <= 126 THEN AsciiPrintable[cp - 31]
    ELSE "U+" \o ToString(cp)

\* String::from_utf8: one to four bytes per char, continuation bytes
\* 128..191, no overlong form, no surrogate, nothing above U+10FFFF
RECURSIVE from_utf8(_)
from_utf8(v) ==
    IF v = <<>> THEN Ok(<<>>)
    ELSE LET b == v[1]
             n == IF b < 128 THEN 1
                  ELSE IF b >= 194 /\ b <= 223 THEN 2
                  ELSE IF b >= 224 /\ b <= 239 THEN 3
                  ELSE IF b >= 240 /\ b <= 244 THEN 4
                  ELSE 0
             wellFormed ==
                 /\ n > 0
                 /\ Len(v) >= n
                 /\ \A i \in 2..n : v[i] >= 128 /\ v[i] <= 191
                 /\ b = 224 => v[2] >= 160
                 /\ b = 237 => v[2] <= 159
                 /\ b = 240 => v[2] >= 144
                 /\ b = 244 => v[2] <= 143
             cp == IF n = 1 THEN b
                   ELSE IF n = 2 THEN (b - 192) * 64 + (v[2] - 128)
                   ELSE IF n = 3
                   THEN (b - 224) * 4096 + (v[2] - 128) * 64 + (v[3] - 128)
                   ELSE (b - 240) * 262144 + (v[2] - 128) * 4096
                            + (v[3] - 128) * 64 + (v[4] - 128)
             rest == from_utf8(SubSeq(v, n + 1, Len(v)))
         IN  IF ~wellFormed THEN Err("invalid utf-8")
             ELSE IF ~rest.ok THEN rest
             ELSE [ok |-> TRUE, val |-> <<Chr(cp)>> \o rest.val, err |-> ""]

(***************************************************************************)
(* Kernel methods.  Each takes the fields it reads and returns the fields  *)
(* it writes together with its Result.                                     *)
(***************************************************************************)
NewInode(inode_id, inode_type, name, parent_id) ==
    [id |-> inode_id, inode_type |-> inode_type, name |-> name, data |-> <<>>,
     children |-> EmptyMap, parent |-> {parent_id}]

\* create_inode without the check that the parent is a directory
create_inode_any_parent(map, nid, parent_id, name, inode_type) ==
    LET m1 == Insert(map, nid, NewInode(nid, inode_type, name, parent_id))
    IN  IF parent_id \in DOMAIN m1
        THEN [inode_map |-> [m1 EXCEPT ![parent_id].children = Insert(@, name, nid)],
              next_inode_id |-> nid + 1,
              res |-> Ok(nid)]
        ELSE [inode_map |-> m1, next_inode_id |-> nid + 1,
              res |-> Err("Parent inode not found")]

\* create_inode that takes the id below the counter instead of the counter
create_inode_id_before_counter(map, nid, parent_id, name, inode_type) ==
    LET inode_id == nid - 1
        m1 == Insert(map, inode_id, NewInode(inode_id, inode_type, name, parent_id))
    IN  IF parent_id \in DOMAIN m1
        THEN IF m1[parent_id].inode_type = "Directory"
             THEN [inode_map |-> [m1 EXCEPT ![parent_id].children =
                                        Insert(@, name, inode_id)],
                   next_inode_id |-> nid + 1,
                   res |-> Ok(inode_id)]
             ELSE [inode_map |-> m1, next_inode_id |-> nid + 1,
                   res |-> Err("Parent is not a directory")]
        ELSE [inode_map |-> m1, next_inode_id |-> nid + 1,
              res |-> Err("Parent inode not found")]

\* create_inode that gives the id back to the counter when it fails, but
\* leaves the inode it inserted
create_inode_counter_rollback(map, nid, parent_id, name, inode_type) ==
    LET inode_id == nid
        m1 == Insert(map, inode_id, NewInode(inode_id, inode_type, name, parent_id))
    IN  IF parent_id \in DOMAIN m1
        THEN IF m1[parent_id].inode_type = "Directory"
             THEN [inode_map |-> [m1 EXCEPT ![parent_id].children =
                                        Insert(@, name, inode_id)],
                   next_inode_id |-> nid + 1,
                   res |-> Ok(inode_id)]
             ELSE [inode_map |-> m1, next_inode_id |-> nid,
                   res |-> Err("Parent is not a directory")]
        ELSE [inode_map |-> m1, next_inode_id |-> nid,
              res |-> Err("Parent inode not found")]

\* create_inode that deletes the inode whose entry it replaces
create_inode_frees_shadowed(map, nid, parent_id, name, inode_type) ==
    LET inode_id == nid
        m1 == Insert(map, inode_id, NewInode(inode_id, inode_type, name, parent_id))
    IN  IF parent_id \in DOMAIN m1
        THEN IF m1[parent_id].inode_type = "Directory"
             THEN LET m2 == IF name \in DOMAIN m1[parent_id].children
                            THEN Remove(m1, m1[parent_id].children[name])
                            ELSE m1
                  IN  [inode_map |-> [m2 EXCEPT ![parent_id].children =
                                             Insert(@, name, inode_id)],
                       next_inode_id |-> nid + 1,
                       res |-> Ok(inode_id)]
             ELSE [inode_map |-> m1, next_inode_id |-> nid + 1,
                   res |-> Err("Parent is not a directory")]
        ELSE [inode_map |-> m1, next_inode_id |-> nid + 1,
              res |-> Err("Parent inode not found")]

\* create_inode that keeps the entry of a name that is already there
create_inode_keeps_entry(map, nid, parent_id, name, inode_type) ==
    LET inode_id == nid
        m1 == Insert(map, inode_id, NewInode(inode_id, inode_type, name, parent_id))
    IN  IF parent_id \in DOMAIN m1
        THEN IF m1[parent_id].inode_type = "Directory"
             THEN [inode_map |-> IF name \in DOMAIN m1[parent_id].children
                                 THEN m1
                                 ELSE [m1 EXCEPT ![parent_id].children =
                                           Insert(@, name, inode_id)],
                   next_inode_id |-> nid + 1,
                   res |-> Ok(inode_id)]
             ELSE [inode_map |-> m1, next_inode_id |-> nid + 1,
                   res |-> Err("Parent is not a directory")]
        ELSE [inode_map |-> m1, next_inode_id |-> nid + 1,
              res |-> Err("Parent inode not found")]

\* Kernel::create_inode: the inode is inserted before the parent is looked at
create_inode(map, nid, parent_id, name, inode_type) ==
    LET inode_id == nid
        m1 == Insert(map, inode_id, NewInode(inode_id, inode_type, name, parent_id))
    IN  IF parent_id \in DOMAIN m1
        THEN IF m1[parent_id].inode_type = "Directory"
             THEN [inode_map |-> [m1 EXCEPT ![parent_id].children =
                                        Insert(@, name, inode_id)],
                   next_inode_id |-> nid + 1,
                   res |-> Ok(inode_id)]
             ELSE [inode_map |-> m1, next_inode_id |-> nid + 1,
                   res |-> Err("Parent is not a directory")]
        ELSE [inode_map |-> m1, next_inode_id |-> nid + 1,
              res |-> Err("Parent inode not found")]

RECURSIVE walk(_, _, _)
walk(map, current_id, components) ==
    IF components = <<>> THEN Ok(current_id)
    ELSE IF Head(components) = <<>> THEN walk(map, current_id, Tail(components))
    ELSE IF current_id \in DOMAIN map
         THEN IF Head(components) \in DOMAIN map[current_id].children
              THEN walk(map, map[current_id].children[Head(components)],
                        Tail(components))
              ELSE Err("Path component not found")
         ELSE Err("Inode not found during traversal")

\* Kernel::get_inode
get_inode(map, path) ==
    LET p == trim_matches(path, "/")
    IN  IF p = <<>> THEN Ok(root_inode_id) ELSE walk(map, root_inode_id, split(p, "/"))

\* open_file that hands out the lowest handle not in the table
open_file_lowest_free(map, files, nfd, inode_id, mode) ==
    LET fd == CHOOSE h \in FirstFd..nfd :
                  h \notin DOMAIN files /\ \A k \in FirstFd..(h - 1) : k \in DOMAIN files
    IN  IF inode_id \notin DOMAIN map
        THEN [open_files |-> files, next_fd |-> nfd, res |-> Err("Inode not found")]
        ELSE [open_files |-> Insert(files, fd,
                                    [inode_id |-> inode_id, offset |-> 0, mode |-> mode]),
              next_fd |-> IF fd = nfd THEN nfd + 1 ELSE nfd,
              res |-> Ok(fd)]

\* Kernel::open_file
open_file(map, files, nfd, inode_id, mode) ==
    IF inode_id \notin DOMAIN map
    THEN [open_files |-> files, next_fd |-> nfd, res |-> Err("Inode not found")]
    ELSE [open_files |-> Insert(files, nfd,
                                [inode_id |-> inode_id, offset |-> 0, mode |-> mode]),
          next_fd |-> nfd + 1,
          res |-> Ok(nfd)]

\* read_file that returns the slice and leaves the cursor where it was
read_file_no_advance(map, files, fd, buf_size, overflow_checks) ==
    IF fd \notin DOMAIN files
    THEN [open_files |-> files, panic |-> FALSE, res |-> Err("File descriptor not found")]
    ELSE LET data == map[files[fd].inode_id].data
             start == files[fd].offset
             end == Min(start + buf_size, Len(data))
         IN  [open_files |-> files, panic |-> FALSE,
              res |-> [ok |-> TRUE, val |-> SubSeq(data, start + 1, end), err |-> ""]]

\* read_file that moves the cursor by buf_size without clamping it to the length
read_file_unclamped(map, files, fd, buf_size, overflow_checks) ==
    IF fd \notin DOMAIN files
    THEN [open_files |-> files, panic |-> FALSE, res |-> Err("File descriptor not found")]
    ELSE LET data == map[files[fd].inode_id].data
             start == files[fd].offset
             end == Min(start + buf_size, Len(data))
         IN  [open_files |-> [files EXCEPT ![fd].offset = (start + buf_size) % UsizeMod],
              panic |-> FALSE,
              res |-> [ok |-> TRUE, val |-> SubSeq(data, start + 1, end), err |-> ""]]

\* Kernel::read_file.  start + buf_size is usize arithmetic: it panics when
\* overflow checks are on and wraps when they are off; the slice start..end
\* panics when start > end or end > len.
read_file(map, files, fd, buf_size, overflow_checks) ==
    IF fd \notin DOMAIN files
    THEN [open_files |-> files, panic |-> FALSE, res |-> Err("File descriptor not found")]
    ELSE IF files[fd].inode_id \notin DOMAIN map
    THEN [open_files |-> files, panic |-> FALSE, res |-> Err("Inode not found")]
    ELSE LET data == map[files[fd].inode_id].data
             start == files[fd].offset
             sum == start + buf_size
             end == Min(sum % UsizeMod, Len(data))
         IN  IF (sum >= UsizeMod /\ overflow_checks) \/ start > end \/ end > Len(data)
             THEN [open_files |-> files, panic |-> TRUE, res |-> Err("panic")]
             ELSE [open_files |-> [files EXCEPT ![fd].offset = end],
                   panic |-> FALSE,
                   res |-> [ok |-> TRUE, val |-> SubSeq(data, start + 1, end), err |-> ""]]

\* write_file that replaces the content instead of appending to it
write_file_overwrite(map, files, fd, data) ==
    IF fd \notin DOMAIN files
    THEN [inode_map |-> map, res |-> Err("File descriptor not found")]
    ELSE [inode_map |-> [map EXCEPT ![files[fd].inode_id].data = data],
          res |-> Ok(Len(data))]

\* write_file that refuses a descriptor whose mode is not "w"
write_file_mode_checked(map, files, fd, data) ==
    IF fd \notin DOMAIN files
    THEN [inode_map |-> map, res |-> Err("File descriptor not found")]
    ELSE IF files[fd].mode # "w"
    THEN [inode_map |-> map, res |-> Err("Not open for writing")]
    ELSE [inode_map |-> [map EXCEPT ![files[fd].inode_id].data = @ \o data],
          res |-> Ok(Len(data))]

\* Kernel::write_file
write_file(map, files, fd, data) ==
    IF fd \notin DOMAIN files
    THEN [inode_map |-> map, res |-> Err("File descriptor not found")]
    ELSE IF files[fd].inode_id \notin DOMAIN map
    THEN [inode_map |-> map, res |-> Err("Inode not found")]
    ELSE [inode_map |-> [map EXCEPT ![files[fd].inode_id].data = @ \o data],
          res |-> Ok(Len(data))]

\* close_file that drops every descriptor on the inode of fd
close_file_whole_inode(files, fd) ==
    IF fd \in DOMAIN files
    THEN [open_files |-> [h \in {k \in DOMAIN files :
                                    files[k].inode_id # files[fd].inode_id} |-> files[h]],
          res |-> Ok(0)]
    ELSE [open_files |-> files, res |-> Err("File descriptor not found")]

\* Kernel::close_file
close_file(files, fd) ==
    IF fd \in DOMAIN files
    THEN [open_files |-> Remove(files, fd), res |-> Ok(0)]
    ELSE [open_files |-> files, res |-> Err("File descriptor not found")]

\* Kernel::list_directory: the names, which the HashMap yields in no
\* particular order
list_directory(map, inode_id) ==
    IF inode_id \notin DOMAIN map THEN Err("Inode not found")
    ELSE IF map[inode_id].inode_type = "Directory"
    THEN [ok |-> TRUE, val |-> DOMAIN map[inode_id].children, err |-> ""]
    ELSE Err("Not a directory")

\* Kernel::read_file_content
read_file_content(map, inode_id) ==
    IF inode_id \notin DOMAIN map THEN Err("Inode not found")
    ELSE IF from_utf8(map[inode_id].data).ok THEN from_utf8(map[inode_id].data)
    ELSE Err("File content is not valid UTF-8")

(***************************************************************************)
(* The state after Kernel::new.                                            *)
(***************************************************************************)
RootInode ==
    [id |-> 0, inode_type |-> "Directory", name |-> <<"/">>, data |-> <<>>,
     children |-> EmptyMap, parent |-> {}]

\* ret: the call, whether its inner Result was Ok, and the i32 or the String
\* it returned
NoCall == [op |-> "none", ok |-> TRUE, code |-> 0, text |-> <<>>]
IntResult(op, code) == [op |-> op, ok |-> code # -1, code |-> code, text |-> <<>>]
TextResult(op, ok, text) == [op |-> op, ok |-> ok, code |-> 0, text |-> text]

Init ==
    /\ booted = FALSE
    /\ inode_map = Insert(EmptyMap, 0, RootInode)
    /\ next_inode_id = FirstInodeId
    /\ open_files = EmptyMap
    /\ next_fd = FirstFd
    /\ panicked = FALSE
    /\ ret = NoCall
    /\ boots = 0
    /\ issued = <<>>
    /\ closed = {}
    /\ readLog = EmptyMap
    /\ script = 0

(***************************************************************************)
(* The exported calls.                                                     *)
(***************************************************************************)
HomePath == <<"/", "h", "o", "m", "e">>
NopePath == <<"/", "n", "o", "p", "e">>
DocPath == HomePath \o <<"/", "d", "o", "c", ".", "t", "x", "t">>
HiBytes == <<"7", "2", ",", "1", "0", "5">>

\* a call: its name, its path argument and its other argument; a call on a
\* descriptor is named apart unless the descriptor is the last one opened
Call(op, path, arg) == [op |-> op, path |-> path, arg |-> arg]
OnLast(op, fd) ==
    IF issued # <<>> /\ fd = issued[Len(issued)] THEN op ELSE "other " \o op

\* boot; exists /home; exists /nope; create /home/doc.txt as a file; exists
\* /home/doc.txt; open it for writing; write "72,105" to the descriptor;
\* close the descriptor; cat /home/doc.txt
Scenario ==
    << Call("boot", <<>>, <<>>),
       Call("exists", HomePath, <<>>),
       Call("exists", NopePath, <<>>),
       Call("create", DocPath, <<"file">>),
       Call("exists", DocPath, <<>>),
       Call("open", DocPath, <<"w">>),
       Call("write", <<>>, HiBytes),
       Call("close", <<>>, <<>>),
       Call("cat", DocPath, <<>>) >>

Follows(call) ==
    script' = IF script >= 0 /\ script < Len(Scenario) /\ Scenario[script + 1] = call
              THEN script + 1
              ELSE -1

BootNames == << <<"b", "i", "n">>, <<"e", "t", "c">>, <<"h", "o", "m", "e">>,
                <<"t", "m", "p">> >>

\* boot: four create_inode calls under inode 0, results discarded
Boot ==
    LET c1 == create_inode(inode_map, next_inode_id, 0, BootNames[1], "Directory")
        c2 == create_inode(c1.inode_map, c1.next_inode_id, 0, BootNames[2], "Directory")
        c3 == create_inode(c2.inode_map, c2.next_inode_id, 0, BootNames[3], "Directory")
        c4 == create_inode(c3.inode_map, c3.next_inode_id, 0, BootNames[4], "Directory")
    IN  /\ ~panicked
        /\ booted' = TRUE
        /\ inode_map' = c4.inode_map
        /\ next_inode_id' = c4.next_inode_id
        /\ ret' = [NoCall EXCEPT !.op = "boot"]
        /\ boots' = boots + 1
        /\ Follows(Call("boot", <<>>, <<>>))
        /\ UNCHANGED <<open_files, next_fd, panicked, issued, closed, readLog>>

\* fs_create: the store and the counter it leaves, and the i32 it returns
fs_create(map, nid, path0, is_dir) ==
    LET path == trim_matches(path0, "/")
        last_slash == rfind(path, "/")
        inode_type == IF is_dir THEN "Directory" ELSE "File"
        refused == [inode_map |-> map, next_inode_id |-> nid, ret |-> -1]
        created(c) == [inode_map |-> c.inode_map, next_inode_id |-> c.next_inode_id,
                       ret |-> IF c.res.ok THEN 0 ELSE -1]
    IN  IF path = <<>> THEN refused
        ELSE IF last_slash # 0
        THEN LET parent_path == SubSeq(path, 1, last_slash - 1)
                 name == SubSeq(path, last_slash + 1, Len(path))
                 parent == get_inode(map, parent_path)
             IN  IF name = <<>> THEN refused
                 ELSE IF parent.ok
                 THEN created(create_inode(map, nid, parent.val, name, inode_type))
                 ELSE refused
        ELSE created(create_inode(map, nid, 0, path, inode_type))

FsCreate(path, is_dir) ==
    LET c == fs_create(inode_map, next_inode_id, path, is_dir)
    IN  /\ ~panicked
        /\ inode_map' = c.inode_map
        /\ next_inode_id' = c.next_inode_id
        /\ ret' = IntResult("create", c.ret)
        /\ Follows(Call("create", path, IF is_dir THEN <<"dir">> ELSE <<"file">>))
        /\ UNCHANGED <<booted, open_files, next_fd, panicked, history>>

\* fs_open that takes a handle from the counter before it resolves the path
fs_open_counts_failures(map, files, nfd, path, mode) ==
    LET found == get_inode(map, path)
        o == open_file(map, files, nfd, found.val, mode)
    IN  IF found.ok
        THEN [open_files |-> o.open_files, next_fd |-> o.next_fd,
              ret |-> IF o.res.ok THEN o.res.val ELSE -1]
        ELSE [open_files |-> files, next_fd |-> nfd + 1, ret |-> -1]

\* fs_open: the table and the counter it leaves, and the i32 it returns
fs_open(map, files, nfd, path, mode) ==
    LET found == get_inode(map, path)
        o == open_file(map, files, nfd, found.val, mode)
    IN  IF found.ok
        THEN [open_files |-> o.open_files, next_fd |-> o.next_fd,
              ret |-> IF o.res.ok THEN o.res.val ELSE -1]
        ELSE [open_files |-> files, next_fd |-> nfd, ret |-> -1]

FsOpen(path, mode) ==
    LET o == fs_open(inode_map, open_files, next_fd, path, mode)
    IN  /\ ~panicked
        /\ open_files' = o.open_files
        /\ next_fd' = o.next_fd
        /\ ret' = IntResult("open", o.ret)
        /\ Follows(Call("open", path, <<mode>>))
        /\ issued' = IF o.ret # -1 THEN Append(issued, o.ret) ELSE issued
        /\ readLog' = IF o.ret # -1 THEN Insert(readLog, o.ret, <<>>) ELSE readLog
        /\ UNCHANGED <<booted, inode_map, next_inode_id, panicked, boots, closed>>

\* fs_read: the table it leaves, whether it panicked, the bytes read_file
\* returned and the String made of them
fs_read(map, files, fd, size, overflow_checks) ==
    LET r == read_file(map, files, fd, size, overflow_checks)
    IN  [open_files |-> r.open_files, panic |-> r.panic, ok |-> r.res.ok,
         bytes |-> IF r.res.ok THEN r.res.val ELSE <<>>,
         ret |-> IF r.res.ok THEN render(r.res.val) ELSE <<>>]

FsRead(fd, size) ==
    \E overflow_checks \in BOOLEAN :
        LET r == fs_read(inode_map, open_files, fd, size, overflow_checks)
        IN  /\ ~panicked
            /\ open_files' = r.open_files
            /\ panicked' = r.panic
            /\ ret' = TextResult("read", r.ok, r.ret)
            /\ Follows(Call(OnLast("read", fd), <<>>, <<>>))
            /\ readLog' = IF r.ok THEN [readLog EXCEPT ![fd] = @ \o r.bytes]
                          ELSE readLog
            /\ UNCHANGED <<booted, inode_map, next_inode_id, next_fd, boots, issued,
                           closed>>

\* fs_write: the store it leaves and the i32 it returns
fs_write(map, files, fd, data) ==
    LET bytes == parse_bytes(data)
        w == write_file(map, files, fd, bytes.val)
    IN  IF bytes.ok
        THEN [inode_map |-> w.inode_map, ret |-> IF w.res.ok THEN w.res.val ELSE -1]
        ELSE [inode_map |-> map, ret |-> -1]

FsWrite(fd, data) ==
    LET w == fs_write(inode_map, open_files, fd, data)
    IN  /\ ~panicked
        /\ inode_map' = w.inode_map
        /\ ret' = IntResult("write", w.ret)
        /\ Follows(Call(OnLast("write", fd), <<>>, data))
        /\ UNCHANGED <<booted, next_inode_id, open_files, next_fd, panicked, history>>

\* fs_close: the table it leaves and the i32 it returns
fs_close(files, fd) ==
    LET c == close_file(files, fd)
    IN  [open_files |-> c.open_files, ret |-> IF c.res.ok THEN 0 ELSE -1]

FsClose(fd) ==
    LET c == fs_close(open_files, fd)
    IN  /\ ~panicked
        /\ open_files' = c.open_files
        /\ ret' = IntResult("close", c.ret)
        /\ Follows(Call(OnLast("close", fd), <<>>, <<>>))
        /\ closed' = IF c.ret = 0 THEN closed \cup {fd} ELSE closed
        /\ readLog' = IF c.ret = 0 THEN Remove(readLog, fd) ELSE readLog
        /\ UNCHANGED <<booted, inode_map, next_inode_id, next_fd, panicked, boots,
                       issued>>

\* the orders in which a HashMap may yield the names of S
RECURSIVE Orderings(_)
Orderings(S) ==
    IF S = {} THEN {<<>>}
    ELSE UNION {{<<x>> \o o : o \in Orderings(S \ {x})} : x \in S}

\* fs_list: whether the listing succeeded and the Strings it may return,
\* one for each order of the names
fs_list(map, path) ==
    LET found == get_inode(map, path)
        l == list_directory(map, found.val)
    IN  IF found.ok /\ l.ok
        THEN [ok |-> TRUE, texts |-> {join(o, ",") : o \in Orderings(l.val)}]
        ELSE [ok |-> FALSE, texts |-> {<<>>}]

FsList(path) ==
    LET l == fs_list(inode_map, path)
    IN  /\ ~panicked
        /\ \E text \in l.texts : ret' = TextResult("list", l.ok, text)
        /\ Follows(Call("list", path, <<>>))
        /\ UNCHANGED <<kernel, panicked, history>>

\* fs_exists with the results for a directory and a file exchanged
fs_exists_kinds_swapped(map, path) ==
    LET found == get_inode(map, path)
    IN  IF found.ok
        THEN IF found.val \in DOMAIN map
             THEN IF map[found.val].inode_type = "Directory" THEN 0 ELSE 1
             ELSE -1
        ELSE -1

\* fs_exists: 1 for a directory, 0 for a file, -1 when the path does not
\* resolve
fs_exists(map, path) ==
    LET found == get_inode(map, path)
    IN  IF found.ok
        THEN IF found.val \in DOMAIN map
             THEN IF map[found.val].inode_type = "Directory" THEN 1 ELSE 0
             ELSE -1
        ELSE -1

FsExists(path) ==
    /\ ~panicked
    /\ ret' = IntResult("exists", fs_exists(inode_map, path))
    /\ Follows(Call("exists", path, <<>>))
    /\ UNCHANGED <<kernel, panicked, history>>

\* fs_cat: the content as text, or "Error: " and the message (the message
\* is kept whole as one element; the component it names is left out)
fs_cat(map, path) ==
    LET found == get_inode(map, path)
        content == read_file_content(map, found.val)
    IN  IF found.ok
        THEN IF content.ok THEN [ok |-> TRUE, text |-> content.val]
             ELSE [ok |-> FALSE, text |-> <<"Error: ", content.err>>]
        ELSE [ok |-> FALSE, text |-> <<"Error: ", found.err>>]

FsCat(path) ==
    LET c == fs_cat(inode_map, path)
    IN  /\ ~panicked
        /\ ret' = TextResult("cat", c.ok, c.text)
        /\ Follows(Call("cat", path, <<>>))
        /\ UNCHANGED <<kernel, panicked, history>>

(***************************************************************************)
(* The inputs of the exploration.                                          *)
(***************************************************************************)
PathChars == {"/", "a"}

SeqsUpTo(S, n) == UNION {[1..k -> S] : k \in 0..n}

\* every path of at most MaxPathLen characters whose components are "a"
GeneratedPaths ==
    {p \in SeqsUpTo(PathChars, MaxPathLen) :
        \A i \in 1..Len(split(p, "/")) : split(p, "/")[i] \in {<<>>, <<"a">>}}

\* paths that reach the directories boot seeds
SeededPaths ==
    { <<"/", "t", "m", "p">>,
      <<"/", "t", "m", "p", "/", "a">>,
      <<"/", "h", "o", "m", "e", "/">> }

Paths == GeneratedPaths \cup SeededPaths

Modes == {"r", "w"}

Sizes == 0..(UsizeMod - 1)

WriteInputs ==
    { <<>>,
      <<"7">>,
      <<" ", "7">>,
      <<"7", "2", ",", "1", "0", "5">>,
      <<",", "7", ",">>,
      <<"2", "5", "6">>,
      <<"7", ",", "x">>,
      <<"7", ",", " ">> }

\* the inodes allocated by fs_create calls (boot allocates four per call)
CreatedByCalls == next_inode_id - FirstInodeId - 4 * boots

DataWithin(n) == \A i \in DOMAIN inode_map : Len(inode_map[i].data) <= n

(***************************************************************************)
(* Spec: the name space.  boot and fs_create, with every path and both     *)
(* kinds; these are the calls that change the inode tree.                  *)
(***************************************************************************)
Next ==
    \/ boots < MaxBoots /\ Boot
    \/ \E p \in Paths, d \in BOOLEAN :
          FsCreate(p, d) /\ CreatedByCalls' <= MaxCreates

Spec == Init /\ [][Next]_vars

(***************************************************************************)
(* SpecIo: the descriptor table.  One file is created; descriptors are     *)
(* opened on it in both modes, read with every size of the word range,     *)
(* written with every input and closed; every call is also made on a path  *)
(* that does not resolve and on handles that are not open.                 *)
(***************************************************************************)
FileA == <<"/", "a">>

OpenPaths == {FileA, <<"/", "b">>}

\* the handles of the table, the closed ones and the reserved handle 0
FdsNow == DOMAIN open_files \cup closed \cup {0}

NextIo ==
    \/ ~get_inode(inode_map, FileA).ok /\ FsCreate(FileA, FALSE)
    \/ \E p \in OpenPaths, m \in Modes :
          FsOpen(p, m) /\ next_fd' <= FirstFd + MaxOpens
    \/ \E fd \in FdsNow, size \in Sizes : FsRead(fd, size)
    \/ \E fd \in FdsNow, data \in WriteInputs :
          FsWrite(fd, data) /\ DataWithin(MaxData)'
    \/ \E fd \in FdsNow : FsClose(fd)

SpecIo == Init /\ [][NextIo]_vars

(***************************************************************************)
(* SpecScn: the calls of Scenario and their neighbours.  boot, the         *)
(* read-only calls on four paths, the create of the document, opens for    *)
(* writing, writes of a well-formed and of a malformed list, closes.       *)
(***************************************************************************)
ScnPaths == {<<"/">>, HomePath, NopePath, DocPath}

NextScn ==
    \/ boots < MaxBoots /\ Boot
    \/ \E p \in ScnPaths : FsExists(p)
    \/ \E p \in ScnPaths : FsList(p)
    \/ \E p \in ScnPaths : FsCat(p)
    \/ ~get_inode(inode_map, DocPath).ok /\ FsCreate(DocPath, FALSE)
    \/ \E p \in {DocPath, NopePath} :
          FsOpen(p, "w") /\ next_fd' <= FirstFd + MaxOpens
    \/ \E fd \in FdsNow, data \in {HiBytes, <<"7", ",", "x">>} :
          FsWrite(fd, data) /\ DataWithin(MaxData)'
    \/ \E fd \in FdsNow : FsClose(fd)

SpecScn == Init /\ [][NextScn]_vars

(***************************************************************************)
(* SpecShadow: names created again.  boot, run more than once, and creates *)
(* of files at /home and /home/doc.txt replace entries of the child        *)
(* mappings while descriptors are open on the inodes, read and written.    *)
(***************************************************************************)
ShadowPaths == {HomePath, DocPath}

NextShadow ==
    \/ boots < MaxBoots /\ Boot
    \/ \E p \in ShadowPaths :
          FsCreate(p, FALSE) /\ CreatedByCalls' <= ShadowCreates
    \/ \E p \in ShadowPaths :
          FsOpen(p, "w") /\ next_fd' <= FirstFd + ShadowOpens
    \/ \E fd \in FdsNow : FsRead(fd, 1)
    \/ \E fd \in FdsNow :
          FsWrite(fd, <<"7">>) /\ DataWithin(ShadowData)'

SpecShadow == Init /\ [][NextShadow]_vars

(***************************************************************************)
(* Notions the claims use.                                                 *)
(***************************************************************************)
\* the text after the final '/' of the path is empty
EmptyTrailingName(path) == path = <<>> \/ path[Len(path)] = "/"

\* the parent part of a path: the text before the last '/' of the path
\* without its leading and trailing slashes; the root when there is none
ParentPart(path) ==
    LET p == trim_matches(path, "/")
    IN  SubSeq(p, 1, rfind(p, "/") - 1)

\* the (directory, name) pairs whose child mapping points to inode i
Links(i) ==
    {dn \in UNION {{<<d, n>> : n \in DOMAIN inode_map[d].children} :
                        d \in DOMAIN inode_map} :
        inode_map[dn[1]].children[dn[2]] = i}

RECURSIVE ReachableFrom(_)
ReachableFrom(S) ==
    LET T == S \cup UNION {{inode_map[d].children[n] : n \in DOMAIN inode_map[d].children} :
                                d \in S \cap DOMAIN inode_map}
    IN  IF T = S THEN S ELSE ReachableFrom(T)

(***************************************************************************)
(* Claims on the name space, checked under Spec.                           *)
(***************************************************************************)
\* C1: a create call that returns -1 leaves the inode store, the inode-id
\* counter and the descriptor table as they were.
C1_FailedCreateChangesNothing ==
    [][(ret'.op = "create" /\ ret'.code = -1) => UNCHANGED fsState]_vars

\* C2: every inode but the root is reachable from the root through child
\* mappings, and exactly one child-mapping entry points to it; none points
\* to the root.
C2_StoreIsATree ==
    /\ Links(root_inode_id) = {}
    /\ \A i \in DOMAIN inode_map \ {root_inode_id} :
          /\ i \in ReachableFrom({root_inode_id})
          /\ Cardinality(Links(i)) = 1

\* C3: create with an empty trailing name returns -1 and adds no inode and
\* no child-mapping entry.
C3_EmptyTrailingNameFails ==
    [][\A p \in Paths, d \in BOOLEAN :
          (FsCreate(p, d) /\ EmptyTrailingName(p))
              => (ret'.code = -1 /\ inode_map' = inode_map)]_vars

\* C4: in every reachable state, whatever the path and the kind, create
\* returns -1 when the parent part of the path does not resolve or resolves
\* to a File, returns 0 only when it resolves to a Directory, and after a 0
\* the path resolves to a new inode of the requested kind with empty
\* content and no children.
C4_CreateResult ==
    \A p \in Paths, d \in BOOLEAN :
        LET c == fs_create(inode_map, next_inode_id, p, d)
            parent == get_inode(inode_map, ParentPart(p))
            parentIsDir == /\ parent.ok
                           /\ parent.val \in DOMAIN inode_map
                           /\ inode_map[parent.val].inode_type = "Directory"
            now == get_inode(c.inode_map, p)
        IN  /\ c.ret \in {0, -1}
            /\ ~parentIsDir => c.ret = -1
            /\ c.ret = 0 =>
                  /\ parentIsDir
                  /\ now.ok
                  /\ now.val \notin DOMAIN inode_map
                  /\ now.val \in DOMAIN c.inode_map
                  /\ c.inode_map[now.val].inode_type = (IF d THEN "Directory" ELSE "File")
                  /\ c.inode_map[now.val].data = <<>>
                  /\ c.inode_map[now.val].children = EmptyMap

\* C4 witness: a create returned 0 for a File below a directory that is not
\* the root, and another inode of the store is a File (a parent that a
\* create had to refuse).
C4_Witness ==
    /\ ret.op = "create" /\ ret.code = 0
    /\ \E i \in DOMAIN inode_map :
          /\ i = next_inode_id - 1
          /\ inode_map[i].inode_type = "File"
          /\ inode_map[i].parent # {root_inode_id}
          /\ i \in ReachableFrom({root_inode_id})

\* C13: the inode with id 0 is in the store, is a Directory, has no parent,
\* and is what the paths "" and "/" resolve to.
C13_RootStays ==
    /\ root_inode_id \in DOMAIN inode_map
    /\ inode_map[root_inode_id].id = root_inode_id
    /\ inode_map[root_inode_id].inode_type = "Directory"
    /\ inode_map[root_inode_id].parent = {}
    /\ get_inode(inode_map, <<>>) = Ok(root_inode_id)
    /\ get_inode(inode_map, <<"/">>) = Ok(root_inode_id)

\* C13 witness: boot ran twice, and creates have shadowed a name, left an
\* inode that no child mapping points to, and the last one failed.
C13_Witness ==
    /\ boots = 2
    /\ ret.op = "create" /\ ret.code = -1
    /\ \E i \in DOMAIN inode_map :
          /\ inode_map[i].inode_type = "File"
          /\ inode_map[i].parent = {root_inode_id}
          /\ Links(i) # {}
    /\ \E i \in DOMAIN inode_map \ {root_inode_id} : Links(i) = {}

\* C19: every entry name -> c of the child mapping of an inode d has d a
\* Directory, c in the store, the parent field of c naming d and the name
\* field of c equal to name; a File has no children, so a path that goes
\* on after a File does not resolve.
C19_ChildEntriesAgree ==
    /\ \A d \in DOMAIN inode_map :
          /\ inode_map[d].inode_type = "File" => inode_map[d].children = EmptyMap
          /\ \A n \in DOMAIN inode_map[d].children :
                LET c == inode_map[d].children[n]
                IN  /\ inode_map[d].inode_type = "Directory"
                    /\ c \in DOMAIN inode_map
                    /\ inode_map[c].parent = {d}
                    /\ inode_map[c].name = n
    /\ \A p \in Paths : \A k \in 1..Len(p) :
          p[k] = "/" =>
              LET f == get_inode(inode_map, SubSeq(p, 1, k - 1))
                  rest == SubSeq(p, k + 1, Len(p))
              IN  (/\ f.ok
                   /\ inode_map[f.val].inode_type = "File"
                   /\ trim_matches(rest, "/") # <<>>)
                      => ~get_inode(inode_map, p).ok

\* C19 witness: a File lies below a Directory that is not the root, and a
\* create below a File has just been refused.
C19_Witness ==
    /\ ret.op = "create" /\ ret.code = -1
    /\ \E d \in DOMAIN inode_map \ {root_inode_id} :
          \E n \in DOMAIN inode_map[d].children :
              inode_map[inode_map[d].children[n]].inode_type = "File"

\* following parent fields from inode i reaches the root in at most n steps
RECURSIVE ClimbsToRoot(_, _)
ClimbsToRoot(i, n) ==
    IF i = root_inode_id THEN TRUE
    ELSE IF n = 0 \/ i \notin DOMAIN inode_map THEN FALSE
    ELSE \E p \in inode_map[i].parent : ClimbsToRoot(p, n - 1)

\* C20: every inode but the root has a parent field that names an inode of
\* the store with a smaller id, every id of the store is below the
\* inode-id counter, and following parent fields from any inode ends at
\* the root.
C20_ParentsAreOlder ==
    \A i \in DOMAIN inode_map :
        /\ i < next_inode_id
        /\ inode_map[i].id = i
        /\ i # root_inode_id =>
              \E p \in DOMAIN inode_map : inode_map[i].parent = {p} /\ p < i
        /\ ClimbsToRoot(i, next_inode_id)

\* C20 witness: the store holds an inode that no child mapping points to
\* whose parent is a File, left by a create that failed.
C20_Witness ==
    /\ ret.op = "create" /\ ret.code = -1
    /\ \E i \in DOMAIN inode_map \ {root_inode_id} :
          /\ Links(i) = {}
          /\ \E p \in inode_map[i].parent :
                p # root_inode_id /\ inode_map[p].inode_type = "File"

(***************************************************************************)
(* Claims on the descriptor table, checked under SpecIo.                   *)
(***************************************************************************)
Content(fd) == inode_map[open_files[fd].inode_id].data
Cursor(fd) == open_files[fd].offset

\* C5: a descriptor starts at cursor 0; the slice a read returns is the
\* content between the cursor before and the cursor after the read, so the
\* slices returned on a descriptor are contiguous and disjoint and together
\* are the content from byte 0 up to its cursor; no step moves a cursor back.
C5_ReadsPartitionContent ==
    /\ [](\A fd \in DOMAIN open_files :
            /\ fd \in DOMAIN readLog
            /\ readLog[fd] = SubSeq(Content(fd), 1, Cursor(fd)))
    /\ [][/\ \A fd \in (DOMAIN open_files') \ DOMAIN open_files :
                open_files'[fd].offset = 0
          /\ \A fd \in (DOMAIN open_files') \cap DOMAIN open_files :
                /\ open_files'[fd].offset >= Cursor(fd)
                /\ readLog'[fd] = readLog[fd] \o
                       SubSeq(Content(fd), Cursor(fd) + 1, open_files'[fd].offset)]_vars

\* C5 witness: two descriptors on one inode have read different amounts, one
\* of them everything in two reads' worth of content written by two writes.
C5_Witness ==
    /\ ret.op = "read" /\ ret.ok /\ ret.text # <<>>
    /\ \E f, g \in DOMAIN open_files :
          /\ f # g
          /\ open_files[f].inode_id = open_files[g].inode_id
          /\ Cursor(f) = 2 /\ Cursor(g) = 1
          /\ readLog[f] = <<7, 7>>

\* close every descriptor of the table that is on inode id
RECURSIVE CloseAllOn(_, _)
CloseAllOn(files, id) ==
    LET on == {fd \in DOMAIN files : files[fd].inode_id = id}
    IN  IF on = {} THEN files
        ELSE CloseAllOn(close_file(files, CHOOSE fd \in on : TRUE).open_files, id)

\* what a fresh descriptor reads after write(fd, data): the write, then (if
\* closeAll) the close of every descriptor on the inode, then open_file on
\* the same inode and a read of the full content length
RoundTrip(fd, data, closeAll, overflow_checks) ==
    LET id == open_files[fd].inode_id
        w == fs_write(inode_map, open_files, fd, data)
        files == IF closeAll THEN CloseAllOn(open_files, id) ELSE open_files
        o == open_file(w.inode_map, files, next_fd, id, "r")
    IN  fs_read(w.inode_map, o.open_files, o.res.val, Len(w.inode_map[id].data),
                overflow_checks)

\* the writes the round trip is tried with: those that succeed and keep the
\* content within MaxData
RoundTripInputs(fd) ==
    {data \in WriteInputs :
        /\ parse_bytes(data).ok
        /\ Len(Content(fd)) + Len(parse_bytes(data).val) <= MaxData}

\* C6 as stated: after write(fd, bytes), a fresh descriptor on the same inode
\* that reads the full content length gets exactly bytes.
C6_RoundTripReturnsBytes ==
    \A fd \in DOMAIN open_files, closeAll \in BOOLEAN, oc \in BOOLEAN :
        \A data \in RoundTripInputs(fd) :
            RoundTrip(fd, data, closeAll, oc).bytes = parse_bytes(data).val

\* C6 amended: the fresh descriptor gets the content the inode had before
\* the write followed by bytes, which is exactly bytes when the inode was
\* empty before the write; closing the descriptors in between changes nothing.
C6_RoundTripReturnsContent ==
    \A fd \in DOMAIN open_files, closeAll \in BOOLEAN, oc \in BOOLEAN :
        \A data \in RoundTripInputs(fd) :
            LET r == RoundTrip(fd, data, closeAll, oc)
                bytes == parse_bytes(data).val
            IN  /\ r.ok /\ ~r.panic
                /\ r.bytes = Content(fd) \o bytes
                /\ r.ret = render(Content(fd) \o bytes)
                /\ Content(fd) = <<>> => r.bytes = bytes

\* C6 witness: the writer was closed, and a descriptor opened later has read
\* the whole content, which two writes made.
C6_Witness ==
    /\ ret.op = "read" /\ ret.text = <<"7", ",", "7">>
    /\ \E c \in closed, fd \in DOMAIN open_files :
          /\ c < fd
          /\ readLog[fd] = <<7, 7>>
          /\ Content(fd) = <<7, 7>>

\* C7: close on a handle that is not open returns -1 and changes nothing;
\* a handle that was closed is never open again, so read, write and close on
\* it fail, whatever happened since.
C7_ClosedHandlesStayClosed ==
    /\ [](/\ closed \cap DOMAIN open_files = {}
          /\ \A fd \in (0..next_fd) \ DOMAIN open_files :
                /\ fs_close(open_files, fd) = [open_files |-> open_files, ret |-> -1]
                /\ \A size \in Sizes, oc \in BOOLEAN :
                      LET r == fs_read(inode_map, open_files, fd, size, oc)
                      IN  ~r.ok /\ ~r.panic /\ r.ret = <<>> /\ r.open_files = open_files
                /\ \A data \in WriteInputs :
                      fs_write(inode_map, open_files, fd, data) =
                          [inode_map |-> inode_map, ret |-> -1])
    /\ [][(ret'.op = "close" /\ ret'.code = -1) =>
             UNCHANGED <<kernel, panicked, closed>>]_vars

\* C7 witness: a close has just failed on a state where a handle was closed
\* and a later open succeeded.
C7_Witness ==
    /\ ret.op = "close" /\ ret.code = -1
    /\ \E c \in closed, fd \in DOMAIN open_files : c < fd

\* C8: for every open descriptor and every max_bytes of the word range, read
\* succeeds, returns the content from the cursor to
\* min(cursor + max_bytes, length) and leaves the cursor there.
C8_ReadAnySize ==
    [][\A fd \in DOMAIN open_files, size \in Sizes :
          FsRead(fd, size) =>
              LET end == Min(Cursor(fd) + size, Len(Content(fd)))
              IN  /\ ~panicked'
                  /\ ret'.ok
                  /\ ret'.text = render(SubSeq(Content(fd), Cursor(fd) + 1, end))
                  /\ open_files'[fd].offset = end]_vars

\* C9: a read on a descriptor whose cursor is at the end of the content
\* returns an empty successful result and changes nothing.
C9_ReadAtEndIsEmpty ==
    [][\A fd \in DOMAIN open_files, size \in Sizes :
          (FsRead(fd, size) /\ Cursor(fd) = Len(Content(fd))) =>
              /\ ~panicked'
              /\ ret'.ok
              /\ ret'.text = <<>>
              /\ UNCHANGED kernel]_vars

\* the handles of a sequence are at least FirstFd and strictly increasing
Increasing(hs) ==
    /\ \A i \in 1..Len(hs) : hs[i] >= FirstFd
    /\ \A i, j \in 1..Len(hs) : i < j => hs[i] < hs[j]

\* C10: the handles open returned are at least 3 and strictly increasing,
\* closed ones included; the handle the next open returns is above all of
\* them; every entry of the table has a handle open returned.
C10_HandlesIncrease ==
    /\ Increasing(issued)
    /\ DOMAIN open_files \subseteq {issued[i] : i \in 1..Len(issued)}
    /\ \A p \in OpenPaths, m \in Modes :
          LET o == fs_open(inode_map, open_files, next_fd, p, m)
          IN  o.ret # -1 => Increasing(Append(issued, o.ret))

\* C10 witness: an open has just returned a handle after an earlier handle
\* was closed.
C10_Witness ==
    /\ ret.op = "open" /\ ret.code >= FirstFd
    /\ Len(issued) >= 2
    /\ issued[1] \in closed
    /\ ret.code = issued[Len(issued)]

\* C11: a successful close(fd) removes the entry of fd from the descriptor
\* table and nothing else: the other descriptors (those on the same inode
\* included) keep their inode and cursor, and the inodes and both counters
\* stay as they were.
C11_CloseRemovesOneEntry ==
    /\ [](\A fd \in DOMAIN open_files :
            LET c == fs_close(open_files, fd)
            IN  /\ c.ret = 0
                /\ DOMAIN c.open_files = DOMAIN open_files \ {fd}
                /\ \A h \in DOMAIN c.open_files : c.open_files[h] = open_files[h])
    /\ [][(ret'.op = "close" /\ ret'.code = 0) =>
             /\ \E fd \in DOMAIN open_files : open_files' = Remove(open_files, fd)
             /\ UNCHANGED <<booted, inode_map, next_inode_id, next_fd, panicked>>]_vars

\* C11 witness: a close has just succeeded and a descriptor on the same
\* inode as the closed one is still open with its cursor inside the content.
C11_Witness ==
    /\ ret.op = "close" /\ ret.code = 0
    /\ closed # {}
    /\ \E fd \in DOMAIN open_files : Cursor(fd) = 1 /\ Len(Content(fd)) = 2

\* C12: on every open descriptor, whatever its mode and its cursor, a write
\* of a well-formed byte list returns the number of bytes and makes the
\* content of the inode the old content followed by the bytes; no write
\* changes a descriptor.
C12_WriteAppends ==
    /\ [](\A fd \in DOMAIN open_files, data \in WriteInputs :
            LET bytes == parse_bytes(data)
                w == fs_write(inode_map, open_files, fd, data)
                id == open_files[fd].inode_id
            IN  bytes.ok =>
                  /\ w.ret = Len(bytes.val)
                  /\ DOMAIN w.inode_map = DOMAIN inode_map
                  /\ w.inode_map[id].data = inode_map[id].data \o bytes.val
                  /\ \A i \in DOMAIN inode_map \ {id} : w.inode_map[i] = inode_map[i]
                  /\ [w.inode_map[id] EXCEPT !.data = inode_map[id].data] = inode_map[id])
    /\ [][ret'.op = "write" =>
             UNCHANGED <<booted, next_inode_id, open_files, next_fd, panicked>>]_vars

\* C12 witness: a write of one byte has just succeeded although every open
\* descriptor has mode "r", and a cursor stands inside the content.
C12_Witness ==
    /\ ret.op = "write" /\ ret.code = 1
    /\ open_files # EmptyMap
    /\ \A fd \in DOMAIN open_files : open_files[fd].mode = "r"
    /\ \E fd \in DOMAIN open_files : Cursor(fd) = 1 /\ Len(Content(fd)) = 2

\* C14: an open, read, write or close that returns its failure result
\* leaves the kernel as it was: no descriptor added or removed, no cursor
\* moved, no content changed, no handle taken from the counter.
C14_FailedIoChangesNothing ==
    [][(ret'.op \in {"open", "read", "write", "close"} /\ ~ret'.ok /\ ~panicked') =>
          UNCHANGED kernel]_vars

\* C14 witness: an open has just failed while a descriptor with a moved
\* cursor is in the table.
C14_Witness ==
    /\ ret.op = "open" /\ ret.code = -1
    /\ \E fd \in DOMAIN open_files : Cursor(fd) = 1

\* C18: the cursor of every open descriptor lies between 0 and the length
\* of the content of its inode, so the slice of a read lies within the
\* content.
C18_CursorWithinContent ==
    \A fd \in DOMAIN open_files :
        /\ 0 <= Cursor(fd)
        /\ Cursor(fd) <= Len(Content(fd))

\* C18 witness: after a write, one descriptor stands at the end of the
\* content, another in the middle and reads and writes were interleaved.
C18_Witness ==
    /\ ret.op = "write" /\ ret.code = 1
    /\ \E f, g \in DOMAIN open_files :
          /\ open_files[f].inode_id = open_files[g].inode_id
          /\ open_files[f].mode # open_files[g].mode
          /\ Cursor(f) = 1 /\ Cursor(g) = 0
          /\ Len(Content(f)) = 2

(***************************************************************************)
(* The concrete scenario, checked under SpecScn.                           *)
(***************************************************************************)
\* C15: from a fresh kernel, boot; exists("/home"); exists("/nope");
\* create("/home/doc.txt", false); exists("/home/doc.txt");
\* open("/home/doc.txt", "w"); write(fd, "72,105"); close(fd);
\* cat("/home/doc.txt") return, after boot, 1, -1, 0, 0, a handle >= 3, 2, 0
\* and "Hi"; and list("/") right after boot is a listing of exactly bin,
\* etc, home and tmp, in whatever order.
C15_Scenario ==
    /\ [](script = 1 =>
            /\ fs_list(inode_map, <<"/">>).ok
            /\ \A text \in fs_list(inode_map, <<"/">>).texts :
                  /\ Len(split(text, ",")) = 4
                  /\ {split(text, ",")[i] : i \in 1..4} =
                         {<<"b", "i", "n">>, <<"e", "t", "c">>,
                          <<"h", "o", "m", "e">>, <<"t", "m", "p">>})
    /\ [][/\ script' = 2 => (ret'.op = "exists" /\ ret'.code = 1)
          /\ script' = 3 => (ret'.op = "exists" /\ ret'.code = -1)
          /\ script' = 4 => (ret'.op = "create" /\ ret'.code = 0)
          /\ script' = 5 => (ret'.op = "exists" /\ ret'.code = 0)
          /\ script' = 6 => (ret'.op = "open" /\ ret'.code >= 3)
          /\ script' = 7 => (ret'.op = "write" /\ ret'.code = 2)
          /\ script' = 8 => (ret'.op = "close" /\ ret'.code = 0)
          /\ script' = 9 => (ret'.op = "cat" /\ ret'.ok /\ ret'.text = <<"H", "i">>)
       ]_vars

\* C15 witness: the run is exactly the nine calls of the scenario, and the
\* descriptor it opened is closed.
C15_Witness ==
    /\ script = 9
    /\ ret.op = "cat"
    /\ issued # <<>> /\ issued[1] \in closed

(***************************************************************************)
(* Claims on names created again, checked under SpecShadow.                *)
(***************************************************************************)
\* the inodes that the child mappings of map lead to from the inodes of S
RECURSIVE ReachableIn(_, _)
ReachableIn(map, S) ==
    LET T == S \cup UNION {{map[d].children[n] : n \in DOMAIN map[d].children} :
                                d \in S \cap DOMAIN map}
    IN  IF T = S THEN S ELSE ReachableIn(map, T)

\* C16: when create returns 0 for a path that resolved before, the path
\* resolves to the new, empty inode; the inode it resolved to and all below
\* it are in the store as they were, and nothing leads to them from the
\* root; a descriptor open on one of them reads the same and its writes
\* append to that inode, not to the new one.  The same holds for every
\* step of boot and create: an inode that stops being reachable stays in
\* the store as it was, and the descriptor table is not touched.
C16_ShadowingCreate ==
    /\ [](\A p \in ShadowPaths, d \in BOOLEAN :
            LET before == get_inode(inode_map, p)
                c == fs_create(inode_map, next_inode_id, p, d)
                after == get_inode(c.inode_map, p)
                below == ReachableIn(inode_map, {before.val})
            IN  (before.ok /\ c.ret = 0) =>
                  /\ after.ok
                  /\ after.val = next_inode_id
                  /\ after.val \notin DOMAIN inode_map
                  /\ c.inode_map[after.val].data = <<>>
                  /\ c.inode_map[after.val].children = EmptyMap
                  /\ \A i \in below :
                        i \in DOMAIN c.inode_map /\ c.inode_map[i] = inode_map[i]
                  /\ below \cap ReachableIn(c.inode_map, {root_inode_id}) = {}
                  /\ \A q \in ShadowPaths :
                        get_inode(c.inode_map, q).ok =>
                            get_inode(c.inode_map, q).val \notin below
                  /\ \A fd \in DOMAIN open_files :
                        open_files[fd].inode_id \in below =>
                          LET id == open_files[fd].inode_id
                              w == fs_write(c.inode_map, open_files, fd, <<"7">>)
                          IN  /\ \A size \in Sizes, oc \in BOOLEAN :
                                    fs_read(c.inode_map, open_files, fd, size, oc)
                                        = fs_read(inode_map, open_files, fd, size, oc)
                              /\ w.ret = 1
                              /\ w.inode_map[id].data = inode_map[id].data \o <<7>>
                              /\ w.inode_map[after.val].data = <<>>)
    /\ [][ret'.op \in {"create", "boot"} =>
             /\ open_files' = open_files
             /\ \A i \in ReachableIn(inode_map, {root_inode_id})
                           \ ReachableIn(inode_map', {root_inode_id}) :
                   i \in DOMAIN inode_map' /\ inode_map'[i] = inode_map[i]]_vars

\* C16 witness: a create has just returned 0 for a name that was there; the
\* path resolves to the new empty inode, and a descriptor is open on the
\* inode it resolved to before, which has content and which nothing leads
\* to from the root.
C16_Witness ==
    /\ ret.op = "create" /\ ret.code = 0
    /\ \E p \in ShadowPaths, fd \in DOMAIN open_files :
          LET now == get_inode(inode_map, p)
              id == open_files[fd].inode_id
          IN  /\ now.ok /\ now.val = next_inode_id - 1
              /\ inode_map[now.val].data = <<>>
              /\ inode_map[id].name = inode_map[now.val].name
              /\ inode_map[id].parent = inode_map[now.val].parent
              /\ inode_map[id].data = <<7>>
              /\ id \notin ReachableIn(inode_map, {root_inode_id})

\* C17: every entry of the descriptor table names an inode of the store; so
\* read and write on an open descriptor never fail for a missing inode, and
\* open never fails on a path that resolves.
C17_DescriptorsNameInodes ==
    /\ \A fd \in DOMAIN open_files :
          /\ open_files[fd].inode_id \in DOMAIN inode_map
          /\ \A size \in Sizes, oc \in BOOLEAN :
                read_file(inode_map, open_files, fd, size, oc).res.err
                    # "Inode not found"
          /\ write_file(inode_map, open_files, fd, <<7>>).res.ok
    /\ \A p \in ShadowPaths \cup {<<"/">>, NopePath} :
          LET found == get_inode(inode_map, p)
          IN  found.ok =>
                  open_file(inode_map, open_files, next_fd, found.val, "r").res.ok

\* C17 witness: boot ran again while a descriptor was open on a file below
\* /home: the descriptor names an inode that is in the store but that no
\* path resolves to, below a directory that no path resolves to.
C17_Witness ==
    /\ boots = 2
    /\ \E fd \in DOMAIN open_files :
          LET id == open_files[fd].inode_id
          IN  /\ inode_map[id].inode_type = "File"
              /\ inode_map[id].parent # {root_inode_id}
              /\ Links(id) # {}
              /\ id \notin ReachableIn(inode_map, {root_inode_id})

====
